---- MODULE Spec2Model ----
\* Model of the Jackett search plugin (plugins.v2/jackett/__init__.py):
\* the torznab feed parser, the per-indexer request, the multi-indexer
\* search loop and the plugin's initialisation with its indexer-list probe.
EXTENDS Integers, Sequences, FiniteSets, TLC

VARIABLES
    _enabled,          \* self._enabled
    _api_url,          \* self._api_url
    _api_key_value,    \* self._api_key_value
    _indexers_filter,  \* self._indexers_filter
    _api_key,          \* self._api_key
    _url,              \* self._url
    _indexers,         \* self._indexers (optional list of descriptors)
    event_data,        \* event.event_data of the event being dispatched
    pending,           \* the event has been dispatched and not handled yet
    ret,               \* return value of the last search_medias call
    requests,          \* outbound HTTP requests of the last handler call
    served,            \* responses the server gave to those requests
    last,              \* the last handler that ran
    probe_failed,      \* the last indexer-list probe that ran failed
    xml_content,       \* argument of the _parse_torznab_xml call
    parsed             \* its return value (optional list of records)

vars == <<_enabled, _api_url, _api_key_value, _indexers_filter, _api_key, _url,
          _indexers, event_data, pending, ret, requests, served, last,
          probe_failed, xml_content, parsed>>

pluginVars == <<_enabled, _api_url, _api_key_value, _indexers_filter, _api_key,
                _url, _indexers, event_data, pending, ret, requests, served, last,
                probe_failed>>

parserVars == <<xml_content, parsed>>

-----------------------------------------------------------------------------
\* Bounds of the model.

\* longest feed (number of item elements) given to the parser
MaxItems == 2
\* largest seeders / peers / size count written in a feed
MaxCount == 2
\* longest indexer list the indexer-list endpoint returns
MaxIndexers == 2

-----------------------------------------------------------------------------
\* Python values.

\* Python's None, where a text is expected
None == "None"
\* Element.find() found no such child
Absent == "absent"

\* truth value of an optional text: None and "" are falsy
Truthy(s) == s # None /\ s # ""

\* an optional list: Python's None, or a list
NoneList == [none |-> TRUE, items |-> <<>>]
Some(l) == [none |-> FALSE, items |-> l]

\* the integers a feed of this model writes
IntRange == 0..MaxCount

\* int(text) succeeds: the text is the decimal writing of an integer
IsIntText(s) == \E n \in IntRange : ToString(n) = s

\* int(text), where it succeeds
ToInt(s) == CHOOSE n \in IntRange : ToString(n) = s

-----------------------------------------------------------------------------
\* The torznab feed parser.

TorrentType == "application/x-bittorrent"

\* the url of the first enclosure of the torrent type, else None (the loop
\* breaks at the first enclosure of that type, whatever its url)
RECURSIVE EnclosureLink(_, _)
EnclosureLink(enclosures, i) ==
    IF i > Len(enclosures) THEN None
    ELSE IF enclosures[i].type = TorrentType THEN enclosures[i].url
    ELSE EnclosureLink(enclosures, i + 1)

\* item.find(".//torznab:attr[@name=...]"): index of the first attr of that
\* name, 0 when there is none
RECURSIVE FindAttr(_, _, _)
FindAttr(attrs, name, i) ==
    IF i > Len(attrs) THEN 0
    ELSE IF attrs[i].name = name THEN i
    ELSE FindAttr(attrs, name, i + 1)

\* the link of an item: the enclosure's, else the magneturl attr's value when
\* that attr exists, else the text of the link child
ResolveLink(item) ==
    LET link == EnclosureLink(item.enclosures, 1)
        magnet == FindAttr(item.attrs, "magneturl", 1)
    IN  IF Truthy(link) THEN link
        ELSE IF magnet # 0 THEN item.attrs[magnet].value
        ELSE IF item.link # Absent THEN item.link
        ELSE None

\* the loop over the torznab attrs of an item: the seeders and peers counts,
\* and whether an int() raised
RECURSIVE ScanAttrs(_, _, _)
ScanAttrs(attrs, i, acc) ==
    IF i > Len(attrs) \/ acc.raised THEN acc
    ELSE LET name == attrs[i].name
             value == attrs[i].value
         IN  IF name = "seeders" /\ Truthy(value)
             THEN IF IsIntText(value)
                  THEN ScanAttrs(attrs, i + 1, [acc EXCEPT !.seeders = ToInt(value)])
                  ELSE [acc EXCEPT !.raised = TRUE]
             ELSE IF name = "peers" /\ Truthy(value)
             THEN IF IsIntText(value)
                  THEN ScanAttrs(attrs, i + 1, [acc EXCEPT !.peers = ToInt(value)])
                  ELSE [acc EXCEPT !.raised = TRUE]
             ELSE ScanAttrs(attrs, i + 1, acc)

\* leechers as the parser computes them from the two counts
Leechers(seeders, peers) ==
    IF peers > 0 /\ seeders > 0 THEN peers - seeders ELSE 0

\* the detail page: the comments child, else the guid child, else ""
PageUrl(item) ==
    IF item.comments # Absent THEN item.comments
    ELSE IF item.guid # Absent THEN item.guid
    ELSE ""

\* one turn of the loop over the items: the item is skipped (no link), or an
\* exception is raised (a numeric text int() rejects), or a record is built
ParseItem(item) ==
    LET link == ResolveLink(item)
        counts == ScanAttrs(item.attrs, 1, [seeders |-> 0, peers |-> 0, raised |-> FALSE])
    IN  IF ~Truthy(link) THEN [kind |-> "skip"]
        ELSE IF item.size # Absent /\ ~IsIntText(item.size) THEN [kind |-> "raise"]
        ELSE IF counts.raised THEN [kind |-> "raise"]
        ELSE [kind |-> "ok",
              rec |-> [title |-> IF item.title # Absent THEN item.title ELSE "",
                       magnet_link |-> link,
                       enclosure |-> link,
                       description |-> "",
                       type |-> "torrent",
                       size |-> IF item.size # Absent THEN ToInt(item.size) ELSE 0,
                       pubdate |-> IF item.pubDate # Absent THEN item.pubDate ELSE "",
                       seeders |-> counts.seeders,
                       peers |-> counts.peers,
                       leechers |-> Leechers(counts.seeders, counts.peers),
                       page_url |-> PageUrl(item)]]

\* the loop over the items; an exception in any turn is caught by the
\* function's handler, which returns the empty list
RECURSIVE ParseLoop(_, _, _)
ParseLoop(items, i, results) ==
    IF i > Len(items) THEN results
    ELSE LET r == ParseItem(items[i])
         IN  IF r.kind = "raise" THEN <<>>
             ELSE IF r.kind = "skip" THEN ParseLoop(items, i + 1, results)
             ELSE ParseLoop(items, i + 1, Append(results, r.rec))

\* _parse_torznab_xml: fromstring() raises on a document that is not
\* well-formed XML, and the handler returns the empty list
_parse_torznab_xml(xml) ==
    IF ~xml.wellformed THEN <<>>
    ELSE ParseLoop(xml.items, 1, <<>>)

-----------------------------------------------------------------------------
\* Inputs of the parser: feeds of at most MaxItems items.

Enclosure(type, url) == [type |-> type, url |-> url]
Attr(name, value) == [name |-> name, value |-> value]

Item(title, enclosures, attrs, link, size, comments) ==
    [title |-> title, enclosures |-> enclosures, attrs |-> attrs, link |-> link,
     size |-> size, pubDate |-> "Mon, 01 Jan 2024", comments |-> comments,
     guid |-> "http://x/guid"]

\* the enclosure children of an item
EnclosureLists ==
    { <<>>,
      <<Enclosure("image/jpeg", "http://x/p.jpg")>>,
      <<Enclosure(TorrentType, "http://x/1.torrent")>>,
      <<Enclosure(TorrentType, None)>>,
      <<Enclosure(TorrentType, None), Enclosure(TorrentType, "http://x/2.torrent")>> }

\* the magneturl attr of an item: none, one with an empty value, one with a URI
MagnetAttrs ==
    { <<>>, <<Attr("magneturl", "")>>, <<Attr("magneturl", "magnet:?xt=1")>> }

\* the link child of an item: none, one without text, one with a URL
LinkChildren == { Absent, None, "http://x/details/1" }

\* the texts a count is written as: its decimal writing, nothing, or a word
CountTexts == { ToString(n) : n \in IntRange } \cup { "", "N/A" }

\* a torznab attr of that name with each of the texts, or no such attr
CountAttrs(name) == { <<>> } \cup { <<Attr(name, t)>> : t \in CountTexts }

\* the size child of an item: none, one without text, a number, a word
SizeChildren == { Absent, None, "1", "N/A" }

\* items that differ in where their link is
LinkItems ==
    { Item("link", e, m, l, "1", Absent) :
        e \in EnclosureLists, m \in MagnetAttrs, l \in LinkChildren }

\* items that differ in their seeders and peers attrs
CountItems ==
    { Item(Absent, <<Enclosure(TorrentType, "http://x/1.torrent")>>, s \o p,
           Absent, Absent, "http://x/comments") :
        s \in CountAttrs("seeders"), p \in CountAttrs("peers") }

\* items that differ in their size child
SizeItems ==
    { Item("size", <<>>, m, "http://x/details/1", z, Absent) :
        z \in SizeChildren, m \in MagnetAttrs }

Items == LinkItems \cup CountItems \cup SizeItems

RECURSIVE SeqsUpTo(_, _)
SeqsUpTo(S, n) ==
    IF n = 0 THEN { <<>> }
    ELSE LET shorter == SeqsUpTo(S, n - 1)
         IN  shorter \cup { Append(q, x) : q \in shorter, x \in S }

Malformed == [wellformed |-> FALSE, items |-> <<>>]
Feed(items) == [wellformed |-> TRUE, items |-> items]

Feeds == { Malformed } \cup { Feed(q) : q \in SeqsUpTo(Items, MaxItems) }

-----------------------------------------------------------------------------
\* The world outside the plugin: the Jackett server and the host.

\* the indexer descriptors the server knows: one with a display name, one with
\* an empty name, one without a name
Descriptors ==
    { [id |-> "a", name |-> "Alpha"], [id |-> "b", name |-> ""],
      [id |-> "c", name |-> None] }

\* the server lists each of its indexers once
NoRepeat(l) == \A i, j \in 1..Len(l) : l[i] = l[j] => i = j

IndexerLists == { l \in SeqsUpTo(Descriptors, MaxIndexers) : NoRepeat(l) }

\* what requests.get() does: it raises, or it returns a response
Raises == [kind |-> "exception"]
Response(status, body) == [kind |-> "response", status |-> status, body |-> body]

\* the body of an indexer-list response: JSON of a list, or no JSON at all
JsonList(l) == [json |-> TRUE, list |-> l]
NotJson == [json |-> FALSE, list |-> <<>>]

ProbeResponses ==
    { Raises, Response(500, NotJson), Response(200, NotJson) }
        \cup { Response(200, JsonList(l)) : l \in IndexerLists }

\* two feeds of a search response: three items, the second with no link; and
\* one item whose link is its magneturl attr
FeedA ==
    Feed(<<Item("A1", <<Enclosure(TorrentType, "http://x/1.torrent")>>,
                <<Attr("seeders", "1"), Attr("peers", "2")>>, Absent, "1", Absent),
           Item("A2", <<>>, <<>>, Absent, "1", Absent),
           Item("A3", <<>>, <<>>, "http://x/details/1", Absent, "http://x/comments")>>)
FeedB ==
    Feed(<<Item("B1", <<>>, <<Attr("magneturl", "magnet:?xt=1")>>, Absent, "1", Absent)>>)

SearchResponses ==
    { Raises, Response(500, Malformed), Response(200, Malformed),
      Response(200, FeedA), Response(200, FeedB) }

\* the config dicts the host passes to init_plugin; NoConfig is None or {}
NoConfig == [given |-> FALSE]
Configs ==
    [given : {TRUE}, enabled : BOOLEAN, api_url : {Absent, "/"},
     api_key : {Absent, "k"}, indexers : {Absent, "a,b", "b,x"}]

\* a result another handler left in the event before this plugin ran
PriorResults == <<[title |-> "prior", site |-> "other"]>>

\* the events the host dispatches
Events ==
    [key_word : {None, "", "kw"}, results : {NoneList, Some(PriorResults)}]

-----------------------------------------------------------------------------
\* The plugin.

DefaultApiUrl == "http://127.0.0.1:9117"

\* config.get(key, default)
Get(value, default) == IF value = Absent THEN default ELSE value

\* str.rstrip('/') on the addresses of this model
RStripSlash(s) ==
    CASE s = "/" -> ""
      [] s = "http://h/" -> "http://h"
      [] s = "http://h//" -> "http://h"
      [] OTHER -> s

\* str.split(',') on the filters of this model
Split(s) ==
    CASE s = "a,b" -> <<"a", "b">>
      [] s = "b,x" -> <<"b", "x">>
      [] OTHER -> <<s>>

\* x in list
InList(x, l) == \E i \in 1..Len(l) : l[i] = x

\* get_state that forgets the API key and the host
get_state_enabled_only == _enabled

\* get_state, as a truth value
get_state == _enabled /\ Truthy(_api_key) /\ Truthy(_url)

\* _get_indexers: the list of the response, the empty list on any failure
_get_indexers(response) ==
    IF response.kind = "exception" THEN <<>>
    ELSE IF response.status # 200 THEN <<>>
    ELSE IF ~response.body.json THEN <<>>
    ELSE response.body.list

\* the probe fails: _get_indexers takes one of its failure paths
ProbeFails(response) ==
    \/ response.kind = "exception"
    \/ response.status # 200
    \/ ~response.body.json

\* the request of _get_indexers and the request of _search_indexer
IndexersRequest == [endpoint |-> "indexers", indexer |-> None, q |-> None]
TorznabRequest(indexer_id, key_word) ==
    [endpoint |-> "torznab", indexer |-> indexer_id, q |-> key_word]

\* the probe of init_plugin runs on this configuration
Probes(enabled, api_key, api_url) == enabled /\ Truthy(api_key) /\ Truthy(api_url)

\* the configuration init_plugin leaves: the config's, else what it was
ConfigOf(config) ==
    IF config.given
    THEN [enabled |-> config.enabled,
          api_url |-> RStripSlash(Get(config.api_url, DefaultApiUrl)),
          api_key |-> Get(config.api_key, ""),
          indexers |-> Get(config.indexers, "")]
    ELSE [enabled |-> _enabled, api_url |-> _api_url, api_key |-> _api_key_value,
          indexers |-> _indexers_filter]

\* init_plugin; the response is the server's answer to the probe, if it runs
init_plugin(config, response) ==
    LET c == ConfigOf(config)
    IN  /\ _enabled' = c.enabled
        /\ _api_url' = c.api_url
        /\ _api_key_value' = c.api_key
        /\ _indexers_filter' = c.indexers
        /\ _api_key' = c.api_key
        /\ _url' = c.api_url
        /\ IF Probes(c.enabled, c.api_key, c.api_url)
           THEN /\ _indexers' = Some(_get_indexers(response))
                /\ requests' = <<IndexersRequest>>
                /\ served' = <<response>>
                /\ probe_failed' = ProbeFails(response)
           ELSE /\ _indexers' = _indexers
                /\ requests' = <<>>
                /\ served' = <<>>
                /\ probe_failed' = probe_failed
        /\ last' = "init_plugin"
        /\ ret' = NoneList
        /\ UNCHANGED <<event_data, pending, parserVars>>

InitPlugin == \E config \in Configs \cup {NoConfig} :
    LET c == ConfigOf(config)
    IN  \E response \in IF Probes(c.enabled, c.api_key, c.api_url)
                        THEN ProbeResponses ELSE {Raises} :
            init_plugin(config, response)

\* the host dispatches a SearchMedias event
Dispatch == \E event \in Events :
    /\ ~pending
    /\ event_data' = event
    /\ pending' = TRUE
    /\ last' = "dispatch"
    /\ ret' = NoneList
    /\ requests' = <<>>
    /\ served' = <<>>
    /\ UNCHANGED <<_enabled, _api_url, _api_key_value, _indexers_filter, _api_key,
                   _url, _indexers, probe_failed, parserVars>>

\* _search_indexer: the records of the response, the empty list on any failure
_search_indexer(response) ==
    IF response.kind = "exception" THEN <<>>
    ELSE IF response.status # 200 THEN <<>>
    ELSE _parse_torznab_xml(response.body)

\* the indexers search_medias queries: the known ones whose id is in the
\* filter, all the known ones when the filter is empty
RECURSIVE FilterIndexers(_, _, _)
FilterIndexers(indexers, filter_indexers, i) ==
    IF i > Len(indexers) THEN <<>>
    ELSE IF InList(indexers[i].id, filter_indexers)
         THEN <<indexers[i]>> \o FilterIndexers(indexers, filter_indexers, i + 1)
         ELSE FilterIndexers(indexers, filter_indexers, i + 1)

\* a selection that ignores the filter
SelectAllIndexers(indexers, filter) == indexers

SelectIndexers(indexers, filter) ==
    IF Truthy(filter) THEN FilterIndexers(indexers, Split(filter), 1)
    ELSE indexers

\* a tag without the fallback to the identifier
SiteIsName(indexer) == indexer.name

\* the site a record is tagged with
SiteOf(indexer) == IF Truthy(indexer.name) THEN indexer.name ELSE indexer.id

\* item["site"] = ...
Tag(item, site) ==
    [f \in DOMAIN item \cup {"site"} |-> IF f = "site" THEN site ELSE item[f]]

RECURSIVE TagAll(_, _, _)
TagAll(items, site, i) ==
    IF i > Len(items) THEN <<>>
    ELSE <<Tag(items[i], site)>> \o TagAll(items, site, i + 1)

\* a loop that a failed request ends: the exception is not caught per indexer
RECURSIVE SearchLoopAborting(_, _, _, _, _)
SearchLoopAborting(indexers, responses, key_word, i, acc) ==
    IF i > Len(indexers) THEN acc
    ELSE LET indexer_id == indexers[i].id
             search_results == _search_indexer(responses[i])
             requested == Append(acc.requests, TorznabRequest(indexer_id, key_word))
         IN  IF responses[i].kind = "exception" \/ responses[i].status # 200
             THEN [results |-> acc.results, requests |-> requested]
             ELSE SearchLoopAborting(indexers, responses, key_word, i + 1,
                      [results |-> acc.results \o TagAll(search_results, SiteOf(indexers[i]), 1),
                       requests |-> requested])

\* the loop over the selected indexers: one request each, the records of each
\* response tagged and appended
RECURSIVE SearchLoop(_, _, _, _, _)
SearchLoop(indexers, responses, key_word, i, acc) ==
    IF i > Len(indexers) THEN acc
    ELSE LET indexer_id == indexers[i].id
             search_results == _search_indexer(responses[i])
         IN  SearchLoop(indexers, responses, key_word, i + 1,
                 [results |-> acc.results \o TagAll(search_results, SiteOf(indexers[i]), 1),
                  requests |-> Append(acc.requests, TorznabRequest(indexer_id, key_word))])

\* an end of search_medias that writes the event's results whatever they are
WriteResultsAlways(data, results) == [data EXCEPT !.results = Some(results)]

\* the end of search_medias: the event's results are written when there are any
WriteResults(data, results) ==
    IF results # <<>> THEN [data EXCEPT !.results = Some(results)] ELSE data

\* search_medias: the two guards, the selection, the loop, the result. Were the
\* indexer list still None past the guards, iterating it would raise inside
\* the outer try and the call would end as a refused one does: no request,
\* no result.
search_medias ==
    /\ pending
    /\ pending' = FALSE
    /\ last' = "search_medias"
    /\ IF ~get_state \/ ~Truthy(event_data.key_word) \/ _indexers.none
       THEN /\ ret' = NoneList
            /\ requests' = <<>>
            /\ served' = <<>>
            /\ event_data' = event_data
       ELSE LET indexers == SelectIndexers(_indexers.items, _indexers_filter)
            IN  \E responses \in [1..Len(indexers) -> SearchResponses] :
                  LET out == SearchLoop(indexers, responses, event_data.key_word, 1,
                                        [results |-> <<>>, requests |-> <<>>])
                  IN  /\ requests' = out.requests
                      /\ served' = SubSeq(responses, 1, Len(out.requests))
                      /\ event_data' = WriteResults(event_data, out.results)
                      /\ ret' = IF out.results # <<>> THEN Some(out.results) ELSE NoneList
    /\ UNCHANGED <<_enabled, _api_url, _api_key_value, _indexers_filter, _api_key,
                   _url, _indexers, probe_failed, parserVars>>

\* a call of _parse_torznab_xml on the feed
ParseTorznabXml ==
    /\ parsed.none
    /\ parsed' = Some(_parse_torznab_xml(xml_content))
    /\ UNCHANGED <<xml_content, pluginVars>>

-----------------------------------------------------------------------------
\* Specifications.

\* the plugin object as constructed: the class attributes
PluginInit ==
    /\ _enabled = FALSE
    /\ _api_url = DefaultApiUrl
    /\ _api_key_value = ""
    /\ _indexers_filter = ""
    /\ _api_key = None
    /\ _url = None
    /\ _indexers = NoneList
    /\ event_data = [key_word |-> None, results |-> NoneList]
    /\ pending = FALSE
    /\ ret = NoneList
    /\ requests = <<>>
    /\ served = <<>>
    /\ last = "none"
    /\ probe_failed = FALSE

\* the plugin and its host
Init ==
    /\ PluginInit
    /\ xml_content = Malformed
    /\ parsed = Some(<<>>)

Next == InitPlugin \/ Dispatch \/ search_medias

Spec == Init /\ [][Next]_vars

\* the parser on every feed of the bounds
ParserInit ==
    /\ PluginInit
    /\ xml_content \in Feeds
    /\ parsed = NoneList

ParserNext == ParseTorznabXml

ParserSpec == ParserInit /\ [][ParserNext]_vars

-----------------------------------------------------------------------------
\* Claims about the parser, checked under ParserSpec.

Max(a, b) == IF a >= b THEN a ELSE b

\* the feed is well-formed XML and the parser has returned
ParsedFeed == ~parsed.none /\ xml_content.wellformed

\* C1: every emitted record's leechers is max(peers - seeders, 0), so it is
\* peers - seeders when peers >= seeders and 0 when seeders > peers, never
\* negative.
C1_LeechersIsClampedDifference ==
    ParsedFeed =>
        \A i \in 1..Len(parsed.items) :
            LET r == parsed.items[i]
            IN  r.leechers = Max(r.peers - r.seeders, 0)

\* the parser resolves no link for the item
Linkless(item) == ~Truthy(ResolveLink(item))

\* C3: every emitted record has a non-empty download link, and for a
\* well-formed feed the number of emitted records is the number of items less
\* the number of linkless items.
C3_LinklessItemsDropped ==
    ParsedFeed =>
        /\ \A i \in 1..Len(parsed.items) :
              /\ Truthy(parsed.items[i].magnet_link)
              /\ Truthy(parsed.items[i].enclosure)
        /\ Len(parsed.items) =
              Len(xml_content.items)
                - Cardinality({ i \in 1..Len(xml_content.items) :
                                  Linkless(xml_content.items[i]) })

\* a numeric text that is absent, empty or a number
GoodNumber(text) == text \in {Absent, ""} \/ IsIntText(text)

\* the item with each numeric text int() rejects taken out: the size child
\* removed, the attr's value emptied
RepairAttr(attr) ==
    IF attr.name \in {"seeders", "peers"} /\ ~GoodNumber(attr.value)
    THEN [attr EXCEPT !.value = ""] ELSE attr

RepairItem(item) ==
    [item EXCEPT !.size = IF GoodNumber(@) /\ @ # "" THEN @ ELSE Absent,
                 !.attrs = [k \in 1..Len(@) |-> RepairAttr(@[k])]]

RepairFeed(xml) ==
    [xml EXCEPT !.items = [k \in 1..Len(@) |-> RepairItem(@[k])]]

\* C4: a numeric field whose text is absent or non-numeric falls back to 0 for
\* that field only, so the feed parses to what it would parse to with that
\* text left out: the item is still emitted and its siblings are unchanged.
C4_BadNumberFallsBackToZero ==
    ParsedFeed => parsed.items = _parse_torznab_xml(RepairFeed(xml_content))

\* the link by first usable match: the enclosure's url, else the magneturl
\* attr's value, else the text of the link child
FirstUsableLink(item) ==
    LET enclosure == EnclosureLink(item.enclosures, 1)
        magnet == FindAttr(item.attrs, "magneturl", 1)
    IN  IF Truthy(enclosure) THEN enclosure
        ELSE IF magnet # 0 /\ Truthy(item.attrs[magnet].value)
             THEN item.attrs[magnet].value
        ELSE IF item.link # Absent /\ Truthy(item.link) THEN item.link
        ELSE None

\* every numeric text of the item is one int() accepts
NumbersGood(item) ==
    /\ item.size = Absent \/ IsIntText(item.size)
    /\ \A k \in 1..Len(item.attrs) :
          item.attrs[k].name \in {"seeders", "peers"} => GoodNumber(item.attrs[k].value)

RECURSIVE UsableLinks(_, _)
UsableLinks(items, i) ==
    IF i > Len(items) THEN <<>>
    ELSE IF Truthy(FirstUsableLink(items[i]))
         THEN <<FirstUsableLink(items[i])>> \o UsableLinks(items, i + 1)
         ELSE UsableLinks(items, i + 1)

\* C8: each item gets the first usable link among the enclosure's url, the
\* magneturl attr's value and the link child's text, and is left without a
\* link only when none of the three is usable.
C8_FirstUsableLinkWins ==
    (ParsedFeed /\ \A i \in 1..Len(xml_content.items) : NumbersGood(xml_content.items[i]))
        => [i \in 1..Len(parsed.items) |-> parsed.items[i].magnet_link]
              = UsableLinks(xml_content.items, 1)

-----------------------------------------------------------------------------
\* Claims about the plugin, checked under Spec.

\* the last handler was a search_medias call that passed both guards
Searched ==
    /\ last = "search_medias"
    /\ _enabled /\ Truthy(_api_key) /\ Truthy(_url)
    /\ Truthy(event_data.key_word)

\* the indexers that search selected
Selected == SelectIndexers(_indexers.items, _indexers_filter)

\* the list search_medias returned, None read as the empty list
Returned == IF ret.none THEN <<>> ELSE ret.items

\* the request of an indexer failed: a transport exception, a status other
\* than 200, or a body that is not XML
Failed(response) ==
    \/ response.kind = "exception"
    \/ response.status # 200
    \/ ~response.body.wellformed

\* the records the i-th selected indexer produced, tagged with its site
Produced(i) ==
    LET recs == _search_indexer(served[i])
        site == IF Selected[i].name \in {None, ""} THEN Selected[i].id ELSE Selected[i].name
    IN  [j \in 1..Len(recs) |-> Tag(recs[j], site)]

\* the records of the selected indexers from the i-th on, but the k-th
RECURSIVE ProducedBut(_, _)
ProducedBut(k, i) ==
    IF i > Len(served) THEN <<>>
    ELSE (IF i = k THEN <<>> ELSE Produced(i)) \o ProducedBut(k, i + 1)

\* C2: when the request of indexer k fails, the returned list is exactly the
\* records of the other indexers, whatever the position of k.
C2_FailureIsolation ==
    Searched =>
        /\ Len(served) = Len(Selected)
        /\ \A k \in 1..Len(served) :
              Failed(served[k]) => Returned = ProducedBut(k, 1)

\* a search over two indexers in which the first failed and the second
\* produced the records returned
C2_Witness ==
    /\ Searched
    /\ Len(served) = 2
    /\ Failed(served[1])
    /\ ~Failed(served[2])
    /\ Len(Returned) > 0

\* C5: after an init_plugin whose indexer-list probe failed the client is
\* disabled: get_state() is falsy and a later search_medias issues nothing.
C5_FailClosed ==
    probe_failed =>
        /\ ~(_enabled /\ Truthy(_api_key) /\ Truthy(_url))
        /\ last = "search_medias" => (requests = <<>> /\ ret.none)

\* C6: search_medias issues no request and yields nothing when the keyword is
\* empty or the plugin is not enabled or the host or the API key is missing,
\* and init_plugin issues no request when the host or the API key is missing.
C6_GuardBeforeNetwork ==
    /\ (/\ last = "search_medias"
        /\ \/ ~_enabled
           \/ ~Truthy(_url)
           \/ ~Truthy(_api_key)
           \/ ~Truthy(event_data.key_word))
          => (requests = <<>> /\ served = <<>> /\ ret.none)
    /\ (last = "init_plugin" /\ (~Truthy(_url) \/ ~Truthy(_api_key)))
          => (requests = <<>> /\ served = <<>>)

\* a search refused for a missing API key although indexers are known and the
\* keyword is given
C6_Witness ==
    /\ last = "search_medias"
    /\ _enabled
    /\ ~Truthy(_api_key)
    /\ ~_indexers.none /\ Len(_indexers.items) > 0
    /\ event_data.key_word = "kw"
    /\ requests = <<>>

\* the number of requests of the last handler to that indexer
Queries(indexer_id) ==
    Cardinality({ i \in 1..Len(requests) :
                    requests[i].endpoint = "torznab" /\ requests[i].indexer = indexer_id })

\* the number of entries of the known indexer list with that identifier
Entries(indexer_id) ==
    Cardinality({ i \in 1..Len(_indexers.items) : _indexers.items[i].id = indexer_id })

\* the identifiers of the allow-list
AllowListed == { Split(_indexers_filter)[i] : i \in 1..Len(Split(_indexers_filter)) }

\* the identifiers of the server's indexers and of the allow-lists
Identifiers == { d.id : d \in Descriptors } \cup { "x" }

\* C7 as stated: with an allow-list, each allow-listed identifier is queried
\* exactly once and nothing else is; without one, every known indexer is
\* queried exactly once. Stated of the searches that follow a probe that
\* succeeded, so that a failed probe is not what refutes it.
C7_EachAllowListedQueriedOnce ==
    (Searched /\ ~probe_failed) =>
        \A id \in Identifiers :
            IF Truthy(_indexers_filter)
            THEN Queries(id) = IF id \in AllowListed THEN 1 ELSE 0
            ELSE Queries(id) = Entries(id)

\* C7 as amended: with an allow-list, one request per entry of the known
\* indexer list whose identifier is allow-listed and none for any other
\* identifier, known or not; without one, one request per entry of the known
\* list. Every request of the search is a torznab request, one per selected
\* entry, so none is repeated.
C7_KnownAllowListedQueriedOnce ==
    Searched =>
        /\ \A id \in Identifiers :
              Queries(id) = IF Truthy(_indexers_filter) /\ id \notin AllowListed
                            THEN 0 ELSE Entries(id)
        /\ \A i \in 1..Len(requests) : requests[i].endpoint = "torznab"

\* a search with an allow-list naming a known and an unknown indexer, where
\* another known indexer is left out
C7_Witness ==
    /\ Searched
    /\ _indexers_filter = "b,x"
    /\ Entries("a") = 1 /\ Entries("b") = 1
    /\ Queries("b") = 1 /\ Queries("a") = 0 /\ Queries("x") = 0

\* the number of records of the selected indexers before the i-th
RECURSIVE Offset(_)
Offset(i) == IF i <= 1 THEN 0 ELSE Offset(i - 1) + Len(Produced(i - 1))

\* C9: the returned list is the concatenation, in the order of the known
\* indexer list, of each queried indexer's records in response order, each
\* tagged with the indexer's display name, or its identifier when the name is
\* absent or empty.
C9_ConcatenationInOrder ==
    Searched =>
        /\ Len(served) = Len(Selected)
        /\ Len(Returned) = Offset(Len(served) + 1)
        /\ \A i \in 1..Len(served) :
              \A j \in 1..Len(Produced(i)) :
                  Returned[Offset(i) + j] = Produced(i)[j]
        /\ \A i, j \in 1..Len(Selected) :
              i < j => \E a, b \in 1..Len(_indexers.items) :
                          /\ a < b
                          /\ _indexers.items[a] = Selected[i]
                          /\ _indexers.items[b] = Selected[j]

\* a search over a named and an unnamed indexer that returned two records of
\* the first and one of the second
C9_Witness ==
    /\ Searched
    /\ Len(served) = 2
    /\ Len(Produced(1)) = 2 /\ Len(Produced(2)) = 1
    /\ Selected[1].name = "Alpha" /\ Selected[2].name \in {None, ""}
    /\ Len(Returned) = 3

\* C10: search_medias writes the event's results if and only if it collected
\* a result, the value written being the list it returns; otherwise it returns
\* None and leaves the event as it was; it never changes the configuration or
\* the known indexer list.
C10_EventFrame ==
    [][(pending /\ ~pending') =>
          /\ <<_enabled, _api_url, _api_key_value, _indexers_filter, _api_key, _url,
               _indexers>>' =
             <<_enabled, _api_url, _api_key_value, _indexers_filter, _api_key, _url,
               _indexers>>
          /\ ret'.none <=> \A i \in 1..Len(served') : _search_indexer(served'[i]) = <<>>
          /\ IF ret'.none
             THEN event_data' = event_data
             ELSE /\ ret'.items # <<>>
                  /\ event_data' = [event_data EXCEPT !.results = Some(ret'.items)]]_vars

\* a search in which every indexer failed or had nothing, and the results
\* another handler had left in the event are still there
C10_Witness ==
    /\ Searched
    /\ Len(served) > 0
    /\ ret.none
    /\ event_data.results = Some(PriorResults)

====
